---- MODULE Spec2Model ----
(***************************************************************************)
(* Model of leitor-darf.py: the DARF line pattern, the date+bank pattern,  *)
(* the exclusion filter, the per-page loop of extrair_dados and the        *)
(* Streamlit caller.  A text is a sequence of one-character strings;       *)
(* positions are 1-based and a span [i, j) is given by its first position  *)
(* and the position after its last.                                        *)
(***************************************************************************)
EXTENDS Integers, Sequences, FiniteSets, TLC

\* pc          where the script run is: "aguardando" (no file yet),
\*             "extraindo" (inside extrair_dados), "retornado" (df returned),
\*             "fim" (outcome shown), "falha" (fitz.open raised)
\* doc         the page texts of the uploaded document, in page order
\* pagina      the page the loop of extrair_dados visits next
\* data_arrec  the date found for the page visited last
\* banco       the bank found for the page visited last
\* registros   the rows collected so far
\* trilha      for each row of registros, its page and its match
\* tela        what the Streamlit script has shown
VARIABLES pc, doc, pagina, data_arrec, banco, registros, trilha, tela

vars == <<pc, doc, pagina, data_arrec, banco, registros, trilha, tela>>

(***************************************************************************)
(* Character classes of Python's re module (str patterns).                 *)
(***************************************************************************)

\* \d
Digitos == {"0", "1", "2", "3", "4", "5", "6", "7", "8", "9"}

IsDigit(c) == c \in Digitos

\* \s (the ASCII members; str.strip() removes the same characters)
Brancos == {" ", "\t", "\n", "\r", "\f"}

IsSpace(c) == c \in Brancos

\* A-Z
LetrasAZ == {"A", "B", "C", "D", "E", "F", "G", "H", "I", "J", "K", "L", "M",
             "N", "O", "P", "Q", "R", "S", "T", "U", "V", "W", "X", "Y", "Z"}

\* the range U+00C0 .. U+00DA written À-Ú in the pattern
LetrasAcentuadas == {"À", "Á", "Â", "Ã", "Ä", "Å", "Æ", "Ç", "È", "É", "Ê",
                     "Ë", "Ì", "Í", "Î", "Ï", "Ð", "Ñ", "Ò", "Ó", "Ô", "Õ",
                     "Ö", "×", "Ø", "Ù", "Ú"}

\* [A-ZÀ-Ú0-9\.\s]
IsClasseBanco(c) ==
    c \in LetrasAZ \cup LetrasAcentuadas \cup Digitos \cup {"."} \cup Brancos

\* the characters str.splitlines() breaks a line at ("\r\n" counts once)
QuebrasDeLinha == {"\n", "\r", "\f"}

(***************************************************************************)
(* str.lower(), character by character.                                    *)
(***************************************************************************)

ParesMaiusculaMinuscula ==
    {<<"A", "a">>, <<"B", "b">>, <<"C", "c">>, <<"D", "d">>, <<"E", "e">>,
     <<"F", "f">>, <<"G", "g">>, <<"H", "h">>, <<"I", "i">>, <<"J", "j">>,
     <<"K", "k">>, <<"L", "l">>, <<"M", "m">>, <<"N", "n">>, <<"O", "o">>,
     <<"P", "p">>, <<"Q", "q">>, <<"R", "r">>, <<"S", "s">>, <<"T", "t">>,
     <<"U", "u">>, <<"V", "v">>, <<"W", "w">>, <<"X", "x">>, <<"Y", "y">>,
     <<"Z", "z">>, <<"À", "à">>, <<"Á", "á">>, <<"Â", "â">>, <<"Ã", "ã">>,
     <<"Ç", "ç">>, <<"É", "é">>, <<"Ê", "ê">>, <<"Í", "í">>, <<"Ó", "ó">>,
     <<"Ô", "ô">>, <<"Õ", "õ">>, <<"Ú", "ú">>, <<"Ä", "ä">>, <<"Å", "å">>,
     <<"Æ", "æ">>, <<"È", "è">>, <<"Ë", "ë">>, <<"Ì", "ì">>, <<"Î", "î">>,
     <<"Ï", "ï">>, <<"Ð", "ð">>, <<"Ñ", "ñ">>, <<"Ò", "ò">>, <<"Ö", "ö">>,
     <<"Ø", "ø">>, <<"Ù", "ù">>}

LowerChar(c) ==
    IF \E p \in ParesMaiusculaMinuscula : p[1] = c
    THEN (CHOOSE p \in ParesMaiusculaMinuscula : p[1] = c)[2]
    ELSE c

Lower(s) == [i \in 1..Len(s) |-> LowerChar(s[i])]

(***************************************************************************)
(* String helpers: slicing, strip, replace, splitlines, join, "in".        *)
(***************************************************************************)

\* s[i-1:j-1] of Python: the span [i, j)
Fatia(s, i, j) == SubSeq(s, i, j - 1)

RECURSIVE PrimeiroNaoBranco(_, _)
PrimeiroNaoBranco(s, i) ==
    IF i <= Len(s) /\ IsSpace(s[i]) THEN PrimeiroNaoBranco(s, i + 1) ELSE i

RECURSIVE UltimoNaoBranco(_, _)
UltimoNaoBranco(s, j) ==
    IF j >= 1 /\ IsSpace(s[j]) THEN UltimoNaoBranco(s, j - 1) ELSE j

\* str.strip()
Strip(s) ==
    LET i == PrimeiroNaoBranco(s, 1)
        j == UltimoNaoBranco(s, Len(s))
    IN  IF i > j THEN <<>> ELSE SubSeq(s, i, j)

\* the least member of a non-empty set of positions
Menor(S) == CHOOSE x \in S : \A y \in S : x <= y

\* str.replace for one character by a (possibly empty) text; the text is
\* halved so that the evaluation stays shallow
RECURSIVE Replace(_, _, _)
Replace(s, c, por) ==
    IF s = <<>> THEN <<>>
    ELSE IF Len(s) = 1 THEN (IF s[1] = c THEN por ELSE s)
    ELSE LET meio == Len(s) \div 2
         IN  Replace(SubSeq(s, 1, meio), c, por)
                 \o Replace(SubSeq(s, meio + 1, Len(s)), c, por)

\* sub in s
Contem(s, sub) ==
    \E i \in 1..(Len(s) - Len(sub) + 1) : SubSeq(s, i, i + Len(sub) - 1) = sub

\* str.splitlines() from position i, one line per step: a line ends at the
\* next line break; there is no empty last line after a final line break
RECURSIVE SplitLines(_, _)
SplitLines(s, i) ==
    LET quebras == {q \in i..Len(s) : s[q] \in QuebrasDeLinha}
    IN  IF i > Len(s) THEN <<>>
        ELSE IF quebras = {} THEN <<SubSeq(s, i, Len(s))>>
        ELSE LET q        == Menor(quebras)
                 seguinte == IF s[q] = "\r" /\ q < Len(s) /\ s[q + 1] = "\n"
                             THEN q + 2 ELSE q + 1
             IN  <<SubSeq(s, i, q - 1)>> \o SplitLines(s, seguinte)

\* " ".join(partes)
RECURSIVE Join(_)
Join(partes) ==
    IF partes = <<>> THEN <<>>
    ELSE IF Len(partes) = 1 THEN partes[1]
         ELSE partes[1] \o <<" ">> \o Join(Tail(partes))

\* seq[-k:]
Ultimos(seq, k) ==
    IF Len(seq) <= k THEN seq ELSE SubSeq(seq, Len(seq) - k + 1, Len(seq))

(***************************************************************************)
(* pattern_linha.  The backtracking engine tries a greedy quantifier from  *)
(* its longest extent down and a lazy one from its shortest extent up, and *)
(* keeps the first combination for which the rest of the pattern matches.  *)
(***************************************************************************)

DigitosEm(s, i, k) == i + k - 1 <= Len(s) /\ \A d \in 0..(k - 1) : IsDigit(s[i + d])

\* ,\d{2} at i: the position after it, 0 when it does not match
Centavos(s, i) ==
    IF i <= Len(s) /\ s[i] = "," /\ DigitosEm(s, i + 1, 2) THEN i + 3 ELSE 0

\* (?:\.\d{3})*,\d{2} at i: greedy, one more group first, then the cents
RECURSIVE Milhares(_, _)
Milhares(s, i) ==
    IF i <= Len(s) /\ s[i] = "." /\ DigitosEm(s, i + 1, 3) /\ Milhares(s, i + 4) # 0
    THEN Milhares(s, i + 4)
    ELSE Centavos(s, i)

\* the first alternative when it matched, else the second
Ou(primeira, segunda) == IF primeira # 0 THEN primeira ELSE segunda

\* \d{1,3} with k digits, then the groups and the cents; greedy, so k is
\* tried from 3 down to 1
RECURSIVE ValorCom(_, _, _)
ValorCom(s, i, k) ==
    IF k = 0 THEN 0
    ELSE Ou(IF DigitosEm(s, i, k) THEN Milhares(s, i + k) ELSE 0,
            ValorCom(s, i, k - 1))

\* \d{1,3}(?:\.\d{3})*,\d{2} at i: the position after the amount, 0 when none
Valor(s, i) == ValorCom(s, i, 3)

\* - at i
Traco(s, i) == IF i <= Len(s) /\ s[i] = "-" THEN i + 1 ELSE 0

\* \d{1,3}(?:\.\d{3})*,\d{2}|- at i: the amount is tried before the hyphen
ValorOuTraco(s, i) == Ou(Valor(s, i), Traco(s, i))

\* the position after the longest run of \s starting at i (i when there is none)
RECURSIVE FimBrancos(_, _)
FimBrancos(s, i) ==
    IF i <= Len(s) /\ IsSpace(s[i]) THEN FimBrancos(s, i + 1) ELSE i

SemCorrespondencia == [ok |-> FALSE]

\* the k-th amount field (1 principal, 2 juros, 3 multa, 4 total) at f, where
\* the run of \s that starts at i ends.  The field starts with a digit or a
\* hyphen, so \s+ can only succeed with its longest extent, which must not
\* be empty.
CampoApos(s, i, f, k) ==
    IF f = i THEN 0
    ELSE IF k \in {2, 3} THEN ValorOuTraco(s, f) ELSE Valor(s, f)

\* \s+ and the k-th amount field from i: the position after the field, or 0
Campo(s, i, k) == CampoApos(s, i, FimBrancos(s, i), k)

\* \s+principal\s+juros\s+multa\s+total from i: the positions after the
\* fields that matched, in order, closed by 0 at the first that did not
RECURSIVE Campos(_, _, _)
RECURSIVE CamposDepois(_, _, _)
Campos(s, i, k) == IF k > 4 THEN <<>> ELSE CamposDepois(s, k, Campo(s, i, k))

CamposDepois(s, k, e) == IF e = 0 THEN <<0>> ELSE <<e>> \o Campos(s, e, k + 1)

\* the groups of a match whose description ends at b, from the positions
\* after its four fields
ComCampos(s, b, fins) ==
    IF Len(fins) < 4 \/ fins[Len(fins)] = 0 THEN SemCorrespondencia
    ELSE [ok        |-> TRUE,
          descFim   |-> b,
          principal |-> <<FimBrancos(s, b), fins[1]>>,
          juros     |-> <<FimBrancos(s, fins[1]), fins[2]>>,
          multa     |-> <<FimBrancos(s, fins[2]), fins[3]>>,
          total     |-> <<FimBrancos(s, fins[3]), fins[4]>>,
          fim       |-> fins[4]]

\* the rest of the pattern from b, the position after the description
RestoDaLinha(s, b) == ComCampos(s, b, Campos(s, b, 1))

\* the ends b that "." allows a description [a, b) to have: at least one
\* character, none of them "\n"
FinsDeDescricao(s, a) ==
    {b \in (a + 1)..(Len(s) + 1) : \A k \in a..(b - 1) : s[k] # "\n"}

\* the candidate with the longest description: a greedy .+
MaisLonga(rs) ==
    IF rs = {} THEN SemCorrespondencia
    ELSE CHOOSE r \in rs : \A q \in rs : r.descFim >= q.descFim

\* the candidate with the shortest description
MaisCurta(rs) ==
    IF rs = {} THEN SemCorrespondencia
    ELSE CHOOSE r \in rs : \A q \in rs : r.descFim <= q.descFim

\* (?P<descricao>.+?) from a: lazy, the shortest description after which
\* the rest of the pattern matches
Descricao(s, a) ==
    MaisCurta({r \in {RestoDaLinha(s, b) : b \in FinsDeDescricao(s, a)} : r.ok})

\* the first attempt when it matched, else the next one
OuSenao(r, proxima) == IF r.ok THEN r ELSE proxima

\* \s+ after the code: greedy, the description starts at a, tried from the
\* end of the whitespace run down to one whitespace character after c
RECURSIVE BrancosAposCodigo(_, _, _)
BrancosAposCodigo(s, c, a) ==
    IF a <= c THEN SemCorrespondencia
    ELSE OuSenao([descIni |-> a] @@ Descricao(s, a),
                 BrancosAposCodigo(s, c, a - 1))

ComCodigo(i, r) ==
    IF r.ok THEN [ini |-> i, codigo |-> <<i, i + 4>>] @@ r
    ELSE SemCorrespondencia

\* pattern_linha.match at position i
pattern_linha_em(s, i) ==
    IF ~DigitosEm(s, i, 4) THEN SemCorrespondencia
    ELSE ComCodigo(i, BrancosAposCodigo(s, i + 4, FimBrancos(s, i + 4)))

\* the match with the leftmost start
MaisAEsquerda(ms) ==
    IF ms = {} THEN SemCorrespondencia
    ELSE CHOOSE m \in ms : \A q \in ms : m.ini <= q.ini

\* pattern_linha.search from position i: the leftmost start that matches
pattern_linha_search(s, i) ==
    MaisAEsquerda({m \in {pattern_linha_em(s, k) : k \in i..Len(s)} : m.ok})

\* pattern_linha.finditer: the matches left to right, each search starting
\* where the match before it ended
RECURSIVE pattern_linha_finditer(_, _)
RECURSIVE FinditerDepois(_, _)
pattern_linha_finditer(s, i) == FinditerDepois(s, pattern_linha_search(s, i))

FinditerDepois(s, m) ==
    IF m.ok THEN <<m>> \o pattern_linha_finditer(s, m.fim) ELSE <<>>

\* m.group(nome)
Grupo(s, span) == Fatia(s, span[1], span[2])

(***************************************************************************)
(* pattern_data_banco.                                                     *)
(***************************************************************************)

\* \d{2}/\d{2}/\d{4} at i
DataEm(s, i) ==
    /\ i + 9 <= Len(s)
    /\ DigitosEm(s, i, 2) /\ s[i + 2] = "/"
    /\ DigitosEm(s, i + 3, 2) /\ s[i + 5] = "/"
    /\ DigitosEm(s, i + 6, 4)

\* the position after the longest run of [A-ZÀ-Ú0-9\.\s] starting at i
RECURSIVE FimClasseBanco(_, _)
FimClasseBanco(s, i) ==
    IF i <= Len(s) /\ IsClasseBanco(s[i]) THEN FimClasseBanco(s, i + 1) ELSE i

\* \s*[A-ZÀ-Ú0-9\.\s]+ after the hyphen: \s* ends at k, tried from the end
\* of the whitespace run down to h (no whitespace); the class then takes its
\* longest run, which must not be empty
RECURSIVE NomeBanco(_, _, _)
NomeBanco(s, h, k) ==
    IF k < h THEN 0
    ELSE IF FimClasseBanco(s, k) > k THEN FimClasseBanco(s, k)
    ELSE NomeBanco(s, h, k - 1)

\* pattern_data_banco.match at position i
pattern_data_banco_em(s, i) ==
    IF ~DataEm(s, i) THEN SemCorrespondencia
    ELSE LET c == FimBrancos(s, i + 10)
             h == FimBrancos(s, c + 3)
         IN  IF ~DigitosEm(s, c, 3) THEN SemCorrespondencia
             ELSE IF ~(h <= Len(s) /\ s[h] = "-") THEN SemCorrespondencia
             ELSE LET f == NomeBanco(s, h + 1, FimBrancos(s, h + 1))
                  IN  IF f = 0 THEN SemCorrespondencia
                      ELSE [ok |-> TRUE, ini |-> i, g1 |-> <<i, i + 10>>,
                            g2 |-> <<c, f>>, fim |-> f]

\* pattern_data_banco.search: the leftmost start that matches
pattern_data_banco_search(s, i) ==
    MaisAEsquerda({m \in {pattern_data_banco_em(s, k) : k \in i..Len(s)} : m.ok})

(***************************************************************************)
(* extrair_dados: the work done for one page.                              *)
(***************************************************************************)

EXCECOES_DESCRICAO ==
    {<<"A", "g", "ê", "n", "c", "i", "a">>,
     <<"E", "s", "t", "a", "b", "e", "l", "e", "c", "i", "m", "e", "n", "t", "o">>,
     <<"V", "a", "l", "o", "r", " ", "R", "e", "s", "e", "r", "v", "a", "d", "o">>,
     <<"R", "e", "s", "t", "i", "t", "u", "í", "d", "o">>,
     <<"R", "e", "f", "e", "r", "ê", "n", "c", "i", "a">>}

\* the number of trailing lines that make the footer (linhas[-8:])
LinhasRodape == 8

\* " ".join(linhas[-8:]).strip()
Rodape(texto) == Strip(Join(Ultimos(SplitLines(texto, 1), LinhasRodape)))

\* texto.replace('\n', ' ')
TextoFlat(texto) == Replace(texto, "\n", <<" ">>)

\* the pair of the page before kept when neither search matches
SemDataBancoHerdado == <<data_arrec, banco>>

\* the pair when neither search matches
SemDataBanco == <<<<>>, <<>>>>

\* (m.group(1), m.group(2).strip())
DataBancoDe(s, m) == <<Grupo(s, m.g1), Strip(Grupo(s, m.g2))>>

\* the search of one text: the pair of its first match, else the fallback
BuscaDataBanco(s, m, senao) == IF m.ok THEN DataBancoDe(s, m) ELSE senao

DataBancoEm(s, senao) == BuscaDataBanco(s, pattern_data_banco_search(s, 1), senao)

\* the two searches in the other order: the whole text first
DataBancoTextoPrimeiro(texto) ==
    DataBancoEm(TextoFlat(texto), DataBancoEm(Rodape(texto), SemDataBanco))

\* data_arrec, banco of a page: the footer first, then the whole text
DataBanco(texto) ==
    DataBancoEm(Rodape(texto), DataBancoEm(TextoFlat(texto), SemDataBanco))

\* m.group('descricao').strip()
DescricaoDe(texto, m) == Strip(Fatia(texto, m.descIni, m.descFim))

\* the filter without the two lower(): a case-sensitive comparison
ExcluidaSensivelACaixa(descricao) ==
    \E term \in EXCECOES_DESCRICAO : Contem(descricao, term)

\* any(term.lower() in descricao.lower() for term in EXCECOES_DESCRICAO)
Excluida(descricao) ==
    \E term \in EXCECOES_DESCRICAO : Contem(Lower(descricao), Lower(term))

\* the normalization without the removal of the thousands separators
NormalizaSoVirgula(v) == Replace(v, ",", <<".">>)

\* .replace('.', '').replace(',', '.')
Normaliza(v) == Replace(Replace(v, ".", <<>>), ",", <<".">>)

ZeroPadrao == <<"0", ".", "0", "0">>

\* Juros and Multa without the test for the hyphen
SempreNormaliza(v) == Normaliza(v)

\* the value of Juros and Multa: '0.00' for the hyphen
NormalizaOuZero(v) == IF v # <<"-">> THEN Normaliza(v) ELSE ZeroPadrao

\* the dict appended for an accepted match
Registro(texto, m, data, bco) ==
    [codigo    |-> Grupo(texto, m.codigo),
     descricao |-> DescricaoDe(texto, m),
     data      |-> data,
     banco     |-> bco,
     principal |-> Normaliza(Grupo(texto, m.principal)),
     juros     |-> NormalizaOuZero(Grupo(texto, m.juros)),
     multa     |-> NormalizaOuZero(Grupo(texto, m.multa)),
     total     |-> Normaliza(Grupo(texto, m.total))]

\* the matches of a page that pass the exclusion filter, in match order
Aceitas(texto) ==
    SelectSeq(pattern_linha_finditer(texto, 1),
              LAMBDA m : ~Excluida(DescricaoDe(texto, m)))

\* the rows one page adds for its accepted matches ms
RegistrosDe(texto, ms, db) ==
    [i \in 1..Len(ms) |-> Registro(texto, ms[i], db[1], db[2])]

\* where each of those rows comes from
TrilhaDe(k, ms) == [i \in 1..Len(ms) |-> [pagina |-> k, m |-> ms[i]]]

RegistrosDaPagina(texto) == RegistrosDe(texto, Aceitas(texto), DataBanco(texto))

(***************************************************************************)
(* The documents the text extraction may hand over: a page is built from   *)
(* the lines below, each line ending in "\n" as page.get_text() ends it.   *)
(***************************************************************************)

\* a DARF line with absent interest and penalty
LinhaExemplo ==
    <<"1", "2", "3", "4", " ", "I", "M", "P", "O", "S", "T", "O", " ", "D",
      "E", " ", "R", "E", "N", "D", "A", " ", "1", ".", "2", "3", "4", ",",
      "5", "6", " ", "-", " ", "-", " ", "1", ".", "2", "3", "4", ",", "5",
      "6">>

\* a DARF line with interest and penalty, followed by one more amount
LinhaComSobra ==
    <<"5", "9", "5", "2", " ", "I", "R", " ", "1", ",", "0", "0", " ", "2",
      ",", "0", "0", " ", "3", ",", "0", "0", " ", "6", ",", "0", "0", " ",
      "9", ",", "9", "9">>

\* a line whose description holds an exclusion term in upper case
LinhaAgencia ==
    <<"0", "5", "6", "1", " ", "A", "G", "Ê", "N", "C", "I", "A", " ", "1",
      ",", "0", "0", " ", "-", " ", "-", " ", "1", ",", "0", "0">>

\* a line whose description holds an exclusion term in lower case
LinhaReservado ==
    <<"0", "1", "9", "0", " ", "v", "a", "l", "o", "r", " ", "r", "e", "s",
      "e", "r", "v", "a", "d", "o", " ", "5", ",", "0", "0", " ", "-", " ",
      "1", ",", "0", "0", " ", "6", ",", "0", "0">>

\* a code and four amounts with only whitespace between code and principal
LinhaSemDescricao ==
    <<"0", "2", "2", "0", " ", " ", " ", "1", "0", ",", "0", "0", " ", "-",
      " ", "0", ",", "5", "0", " ", "1", "0", ",", "5", "0">>

\* a record with each field on a line of its own
RegistroEmLinhas ==
    <<"2", "0", "8", "9", "\n", "C", "S", "L", "L", "\n", "1", ".", "0", "0",
      "0", ",", "0", "0", "\n", "-", "\n", "-", "\n", "1", ".", "0", "0",
      "0", ",", "0", "0">>

\* date and bank on one line
RodapeExemplo ==
    <<"3", "1", "/", "0", "1", "/", "2", "0", "2", "4", " ", "3", "4", "1",
      " ", "-", " ", "B", "A", "N", "C", "O", " ", "I", "T", "A", "U", " ",
      "S", " ", "A">>

\* a date on a line of its own
DataSozinha ==
    <<"2", "8", "/", "0", "2", "/", "2", "0", "2", "4">>

\* a bank on a line of its own
BancoSozinho ==
    <<"0", "0", "1", " ", "-", " ", "B", "B">>

\* date and bank code with the bank name in lower case
RodapeMinusculo ==
    <<"1", "5", "/", "0", "3", "/", "2", "0", "2", "4", " ", "2", "3", "7",
      " ", "-", " ", "b", "r", "a", "d", "e", "s", "c", "o">>

\* a DARF line with tabs between the fields and amounts of several groups
LinhaComTabs ==
    <<"3", "2", "0", "8", "\t", "I", "R", "R", "F", "\t", "1", "2", ".", "3",
      "4", "5", ".", "6", "7", "8", ",", "9", "0", "\t", "-", "\t", "1", ",",
      "0", "0", "\t", "1", "2", ".", "3", "4", "5", ".", "6", "7", "9", ",",
      "9", "0">>

\* a line whose amounts lack the thousands separator: no match
LinhaSemMilhar ==
    <<"1", "7", "0", "8", " ", "P", "I", "S", " ", "1", "2", "3", "4", ",",
      "5", "6", " ", "-", " ", "-", " ", "1", "2", "3", "4", ",", "5", "6">>

\* a line of plain text
LinhaDeTexto == <<"x">>

Fragmentos ==
    {LinhaExemplo, LinhaComSobra, LinhaAgencia, LinhaReservado,
     LinhaSemDescricao, RegistroEmLinhas, RodapeExemplo, DataSozinha,
     BancoSozinho, RodapeMinusculo, LinhaComTabs, LinhaSemMilhar}

\* the most fragments on a page of a one-page document
MaxFrags == 2

\* the most pages of a document
MaxPages == 2

\* the number of text lines that may follow a page's first fragment
MaxEnchimento == 8

RECURSIVE JuntaLinhas(_)
JuntaLinhas(ls) ==
    IF ls = <<>> THEN <<>> ELSE Head(ls) \o <<"\n">> \o JuntaLinhas(Tail(ls))

\* the page text: the first fragment, k lines of plain text, the other fragments
Montar(fs, k) ==
    IF fs = <<>> THEN <<>>
    ELSE JuntaLinhas(<<Head(fs)>> \o [i \in 1..k |-> LinhaDeTexto] \o Tail(fs))

SequenciasAte(S, n) == UNION {[1..k -> S] : k \in 0..n}

PaginasRicas ==
    {Montar(fs, k) : fs \in SequenciasAte(Fragmentos, MaxFrags),
                     k \in {0, MaxEnchimento}}

PaginasBase ==
    {Montar(<<LinhaExemplo, RodapeExemplo>>, 0),
     Montar(<<LinhaComSobra, RegistroEmLinhas>>, 0),
     Montar(<<LinhaAgencia>>, 0),
     Montar(<<LinhaDeTexto>>, 0),
     Montar(<<RodapeMinusculo>>, 0)}

Documentos ==
    {<<p>> : p \in PaginasRicas}
        \cup {d \in SequenciasAte(PaginasBase, MaxPages) : Len(d) >= 2}

(***************************************************************************)
(* The program: the Streamlit script calls extrair_dados on the uploaded   *)
(* file, which visits the pages in order, and then shows the outcome.      *)
(* trilha records, for each row of registros, the page and the match it    *)
(* came from.                                                              *)
(***************************************************************************)

Init ==
    /\ pc = "aguardando"
    /\ doc = <<>>
    /\ pagina = 0
    /\ data_arrec = <<>>
    /\ banco = <<>>
    /\ registros = <<>>
    /\ trilha = <<>>
    /\ tela = {}

\* the new rows put before the collected ones
AcrescentaNaFrente(regs, novos) == novos \o regs

\* registros.append for each accepted match of a page, in order
Acrescenta(regs, novos) == regs \o novos

\* uploaded.read() is a PDF: fitz.open succeeds, registros = []
Upload ==
    /\ pc = "aguardando"
    /\ \E d \in Documentos : doc' = d
    /\ pc' = "extraindo"
    /\ pagina' = 1
    /\ registros' = <<>>
    /\ trilha' = <<>>
    /\ UNCHANGED <<data_arrec, banco, tela>>

\* uploaded.read() is no PDF: fitz.open raises and the script run ends
FalhaAoAbrir ==
    /\ pc = "aguardando"
    /\ pc' = "falha"
    /\ UNCHANGED <<doc, pagina, data_arrec, banco, registros, trilha, tela>>

\* the body of the loop for the page text, its date and bank db and its
\* accepted matches ms
Pagina(texto, db, ms) ==
    /\ data_arrec' = db[1]
    /\ banco' = db[2]
    /\ registros' = Acrescenta(registros, RegistrosDe(texto, ms, db))
    /\ trilha' = Acrescenta(trilha, TrilhaDe(pagina, ms))

\* one iteration of "for page in doc"
ProcessarPagina ==
    /\ pc = "extraindo"
    /\ pagina <= Len(doc)
    /\ Pagina(doc[pagina], DataBanco(doc[pagina]), Aceitas(doc[pagina]))
    /\ pagina' = pagina + 1
    /\ UNCHANGED <<pc, doc, tela>>

\* return pd.DataFrame(registros)
Retornar ==
    /\ pc = "extraindo"
    /\ pagina > Len(doc)
    /\ pc' = "retornado"
    /\ UNCHANGED <<doc, pagina, data_arrec, banco, registros, trilha, tela>>

\* the test of df.empty inverted
NaoVazio(df) == df # <<>>

\* df.empty
Vazio(df) == df = <<>>

\* st.warning
Aviso ==
    /\ pc = "retornado"
    /\ Vazio(registros)
    /\ tela' = {"warning"}
    /\ pc' = "fim"
    /\ UNCHANGED <<doc, pagina, data_arrec, banco, registros, trilha>>

\* st.success, st.dataframe, st.download_button
Sucesso ==
    /\ pc = "retornado"
    /\ ~Vazio(registros)
    /\ tela' = {"success", "dataframe", "download_button"}
    /\ pc' = "fim"
    /\ UNCHANGED <<doc, pagina, data_arrec, banco, registros, trilha>>

Next ==
    \/ Upload
    \/ FalhaAoAbrir
    \/ ProcessarPagina
    \/ Retornar
    \/ Aviso
    \/ Sucesso

Spec == Init /\ [][Next]_vars

(***************************************************************************)
(* Properties.  Linha(i) and Texto(i) are the match and the page text that *)
(* row i of registros came from.                                           *)
(***************************************************************************)

Linha(i) == trilha[i].m

Texto(i) == doc[trilha[i].pagina]

\* the two letters are the same up to case
MesmaLetra(a, b) ==
    \/ a = b
    \/ <<a, b>> \in ParesMaiusculaMinuscula
    \/ <<b, a>> \in ParesMaiusculaMinuscula

\* s contains sub, compared case-insensitively
ContemSemCaixa(s, sub) ==
    \E i \in 1..(Len(s) - Len(sub) + 1) :
        \A j \in 1..Len(sub) : MesmaLetra(s[i + j - 1], sub[j])

TemTermoDeExcecao(descricao) ==
    \E term \in EXCECOES_DESCRICAO : ContemSemCaixa(descricao, term)

\* the matches of page k whose description holds an exclusion term
LinhasComTermo(k) ==
    {m \in {pattern_linha_finditer(doc[k], 1)[j] :
                j \in 1..Len(pattern_linha_finditer(doc[k], 1))} :
        TemTermoDeExcecao(Strip(Fatia(doc[k], m.descIni, m.descFim)))}

\* C1: no row of the result has a description that contains, compared
\* case-insensitively, an exclusion term, and a match whose description
\* contains one produced no row.
C1_SemTermoDeExcecao ==
    /\ \A i \in DOMAIN registros : ~TemTermoDeExcecao(registros[i].descricao)
    /\ pc = "retornado" =>
           \A k \in DOMAIN doc : \A m \in LinhasComTermo(k) :
               \A i \in DOMAIN trilha : trilha[i] # [pagina |-> k, m |-> m]

C1_Witness ==
    /\ pc = "retornado"
    /\ registros # <<>>
    /\ \E k \in DOMAIN doc : LinhasComTermo(k) # {}

\* the lines of a page
LinhasDe(texto) ==
    {SplitLines(texto, 1)[j] : j \in 1..Len(SplitLines(texto, 1))}

\* the line, taken alone, is a DARF line from its first to its last
\* character, with a description that is not empty and holds no exclusion
\* term
LinhaValida(l) ==
    /\ pattern_linha_em(l, 1).ok
    /\ pattern_linha_em(l, 1).fim = Len(l) + 1
    /\ DescricaoDe(l, pattern_linha_em(l, 1)) # <<>>
    /\ ~TemTermoDeExcecao(DescricaoDe(l, pattern_linha_em(l, 1)))

\* the row r has the code, description and amounts of the valid line l
RegistroDaLinha(r, l) ==
    /\ r.codigo = Registro(l, pattern_linha_em(l, 1), <<>>, <<>>).codigo
    /\ r.descricao = Registro(l, pattern_linha_em(l, 1), <<>>, <<>>).descricao
    /\ r.principal = Registro(l, pattern_linha_em(l, 1), <<>>, <<>>).principal
    /\ r.juros = Registro(l, pattern_linha_em(l, 1), <<>>, <<>>).juros
    /\ r.multa = Registro(l, pattern_linha_em(l, 1), <<>>, <<>>).multa
    /\ r.total = Registro(l, pattern_linha_em(l, 1), <<>>, <<>>).total

\* C2: every valid DARF line "CCCC DESC P,PP J,JJ M,MM T,TT" of a page gives
\* a row of that page with code CCCC, description DESC and the normalized
\* amounts.
C2_LinhaValidaGeraRegistro ==
    pc = "retornado" =>
        \A k \in DOMAIN doc : \A l \in LinhasDe(doc[k]) :
            LinhaValida(l) =>
                \E i \in DOMAIN registros :
                    trilha[i].pagina = k /\ RegistroDaLinha(registros[i], l)

\* the (date, bank) pairs the pattern finds anywhere in the text s
ParesEm(s) ==
    {DataBancoDe(s, m) :
        m \in {q \in {pattern_data_banco_em(s, i) : i \in 1..Len(s)} : q.ok}}

\* the pairs found on a page's own text, footer or whole page
ParesDaPagina(texto) == ParesEm(Rodape(texto)) \cup ParesEm(TextoFlat(texto))

\* C3: every row carries a (date, bank) pair found on its own page's text,
\* all rows of a page carry the same pair, and the rows of a page without a
\* match carry two empty strings, whatever an earlier page had.
C3_MetadadosDaPropriaPagina ==
    \A i \in DOMAIN registros :
        /\ ParesDaPagina(Texto(i)) = {} =>
               registros[i].data = <<>> /\ registros[i].banco = <<>>
        /\ ParesDaPagina(Texto(i)) # {} =>
               <<registros[i].data, registros[i].banco>> \in ParesDaPagina(Texto(i))
        /\ \A j \in DOMAIN registros :
               trilha[j].pagina = trilha[i].pagina =>
                   /\ registros[j].data = registros[i].data
                   /\ registros[j].banco = registros[i].banco

C3_Witness ==
    \E i, j \in DOMAIN registros :
        /\ trilha[i].pagina < trilha[j].pagina
        /\ registros[i].data # <<>>
        /\ registros[j].data = <<>>
        /\ registros[j].banco = <<>>

\* the pair of the leftmost match in s
PrimeiroPar(s) ==
    DataBancoDe(s, CHOOSE m \in {pattern_data_banco_em(s, i) : i \in 1..Len(s)} :
                       /\ m.ok
                       /\ \A i \in 1..(m.ini - 1) : ~pattern_data_banco_em(s, i).ok)

\* C4: the date and bank of a page are those of the first match in its
\* footer (its last 8 lines, joined by single spaces and trimmed) when the
\* footer has a match, whatever the rest of the page holds; else those of
\* the first match in the whole text with "\n" replaced by a space; else two
\* empty strings.
C4_RodapePrimeiro ==
    (pc = "extraindo" /\ pagina > 1) =>
        IF ParesEm(Rodape(doc[pagina - 1])) # {}
        THEN <<data_arrec, banco>> = PrimeiroPar(Rodape(doc[pagina - 1]))
        ELSE IF ParesEm(TextoFlat(doc[pagina - 1])) # {}
             THEN <<data_arrec, banco>> = PrimeiroPar(TextoFlat(doc[pagina - 1]))
             ELSE data_arrec = <<>> /\ banco = <<>>

C4_Witness ==
    /\ pc = "extraindo"
    /\ pagina > 1
    /\ ParesEm(Rodape(doc[pagina - 1])) # {}
    /\ ParesEm(TextoFlat(doc[pagina - 1])) # {}
    /\ <<data_arrec, banco>> # PrimeiroPar(TextoFlat(doc[pagina - 1]))
    /\ <<data_arrec, banco>> = PrimeiroPar(Rodape(doc[pagina - 1]))

\* the rows are in page order and, within a page, in match order
EmOrdem(tr) ==
    \A i, j \in DOMAIN tr :
        i < j => \/ tr[i].pagina < tr[j].pagina
                 \/ tr[i].pagina = tr[j].pagina /\ tr[i].m.ini < tr[j].m.ini

\* C5: a step only appends: the rows collected so far keep their content and
\* position, the rows are in page order and then match order, and a page
\* with no matching line leaves the rows unchanged.
C5_SoAcrescenta ==
    [][/\ Len(registros') >= Len(registros)
       /\ SubSeq(registros', 1, Len(registros)) = registros
       /\ SubSeq(trilha', 1, Len(trilha)) = trilha
       /\ Len(trilha') = Len(registros')
       /\ EmOrdem(trilha')
       /\ (pc = "extraindo" /\ pagina <= Len(doc)
               /\ pattern_linha_finditer(doc[pagina], 1) = <<>>)
              => registros' = registros]_vars

C5_Witness ==
    /\ pc = "retornado"
    /\ Len(doc) = 2
    /\ pattern_linha_finditer(doc[2], 1) = <<>>
    /\ Len(registros) >= 2
    /\ \A i \in DOMAIN trilha : trilha[i].pagina = 1

\* the digits of a text, in order
SoDigitos(v) == SelectSeq(v, IsDigit)

\* C6: a juros or multa field matched as "-" is output as "0.00"; principal
\* and total never come from "-", and every field that is an amount is output
\* with the digits of that amount.
C6_TracoViraZero ==
    \A i \in DOMAIN registros :
        /\ Grupo(Texto(i), Linha(i).juros) = <<"-">> =>
               registros[i].juros = <<"0", ".", "0", "0">>
        /\ Grupo(Texto(i), Linha(i).multa) = <<"-">> =>
               registros[i].multa = <<"0", ".", "0", "0">>
        /\ Grupo(Texto(i), Linha(i).juros) # <<"-">> =>
               SoDigitos(registros[i].juros) = SoDigitos(Grupo(Texto(i), Linha(i).juros))
        /\ Grupo(Texto(i), Linha(i).multa) # <<"-">> =>
               SoDigitos(registros[i].multa) = SoDigitos(Grupo(Texto(i), Linha(i).multa))
        /\ IsDigit(Grupo(Texto(i), Linha(i).principal)[1])
        /\ IsDigit(Grupo(Texto(i), Linha(i).total)[1])
        /\ SoDigitos(registros[i].principal)
               = SoDigitos(Grupo(Texto(i), Linha(i).principal))
        /\ SoDigitos(registros[i].total) = SoDigitos(Grupo(Texto(i), Linha(i).total))

C6_Witness ==
    \E i \in DOMAIN registros :
        /\ Grupo(Texto(i), Linha(i).juros) = <<"-">>
        /\ Grupo(Texto(i), Linha(i).multa) # <<"-">>
        /\ registros[i].juros = <<"0", ".", "0", "0">>

\* C7: once the outcome is shown it is the warning alone when no row was
\* extracted and the success message, table and download alone when at
\* least one was; nothing is shown before, and when the parse has returned
\* exactly one of the two outcomes can follow.
C7_AvisoQuandoVazio ==
    /\ pc = "fim" =>
           IF registros = <<>>
           THEN tela = {"warning"}
           ELSE tela = {"success", "dataframe", "download_button"}
    /\ pc # "fim" => tela = {}
    /\ pc = "retornado" => (ENABLED Aviso) # (ENABLED Sucesso)

C7_Witness ==
    /\ pc = "fim"
    /\ doc # <<>>
    /\ registros = <<>>
    /\ tela = {"warning"}

\* one or more digits, ".", two digits
FormaDecimal(v) ==
    /\ Len(v) >= 4
    /\ v[Len(v) - 2] = "."
    /\ \A i \in DOMAIN v : i # Len(v) - 2 => IsDigit(v[i])

\* C8: in every row the code is exactly 4 digits and each of the four
\* amounts is one or more digits, ".", two digits, with no comma and no
\* thousands separator.
C8_FormaDosCampos ==
    \A i \in DOMAIN registros :
        /\ Len(registros[i].codigo) = 4
        /\ \A j \in 1..4 : IsDigit(registros[i].codigo[j])
        /\ FormaDecimal(registros[i].principal)
        /\ FormaDecimal(registros[i].juros)
        /\ FormaDecimal(registros[i].multa)
        /\ FormaDecimal(registros[i].total)

C8_Witness ==
    \E i \in DOMAIN registros :
        /\ Grupo(Texto(i), Linha(i).principal)
               = <<"1", ".", "2", "3", "4", ",", "5", "6">>
        /\ registros[i].principal = <<"1", "2", "3", "4", ".", "5", "6">>

\* the span [a, b) of s is a non-empty run of whitespace
SoBrancos(s, a, b) == a < b /\ \A q \in a..(b - 1) : IsSpace(s[q])

\* no position of the span [a, b) of s holds "\n"
SemQuebra(s, a, b) == \A q \in a..(b - 1) : s[q] # "\n"

\* no shorter description from the same start lets the amounts match
DescricaoMinima(s, m) ==
    \A b \in (m.descIni + 1)..(m.descFim - 1) : ~RestoDaLinha(s, b).ok

FormaData(d) ==
    /\ Len(d) = 10
    /\ d[3] = "/"
    /\ d[6] = "/"
    /\ \A i \in {1, 2, 4, 5, 7, 8, 9, 10} : IsDigit(d[i])

\* three digits, a hyphen (whitespace may surround it), a non-empty name of
\* upper-case letters, digits, periods and whitespace; nothing to trim
FormaBanco(b) ==
    /\ Len(b) >= 5
    /\ b = Strip(b)
    /\ \A i \in 1..3 : IsDigit(b[i])
    /\ \E h \in 4..(Len(b) - 1) :
           /\ b[h] = "-"
           /\ \A q \in 4..(h - 1) : IsSpace(b[q])
           /\ Strip(SubSeq(b, h + 1, Len(b))) # <<>>
           /\ \A q \in (h + 1)..Len(b) : IsClasseBanco(b[q])

\* C10: the date and bank of a page are both empty or both non-empty, and
\* when found the date is a DD/MM/YYYY string and the bank a trimmed
\* "3-digit code - name" string with a non-empty name.
C10_FormaDataBanco ==
    (pc = "extraindo" /\ pagina > 1) =>
        /\ data_arrec = <<>> <=> banco = <<>>
        /\ data_arrec # <<>> => FormaData(data_arrec) /\ FormaBanco(banco)

====
